---------------------------- MODULE Spec2Model ----------------------------
(***************************************************************************)
(* Model of the job-email notifier: the classifier (src/src/classifier.py) *)
(* and the run loop around it (src/src/run_job.py, src/src/database.py,    *)
(* src/src/telegram_notifier.py).                                          *)
(*                                                                         *)
(* Text is modelled at the character level: a string is a sequence of      *)
(* one-character strings, so that normalisation (percent-decoding, entity  *)
(* decoding, whitespace collapsing, lowercasing, stripping) and Python's   *)
(* `in` substring test are computed, not assumed.  None is the one-element *)
(* sequence NoneText, which no string equals.                              *)
(*                                                                         *)
(* A confidence is an integer number of 1/600ths (score / 60 is exact in   *)
(* these units for every integer score): 0.85 = 510, 0.5 = 300, 0.3 = 180, *)
(* 0.1 = 60, 0.99 = 594, 0.95 = 570, 1.0 = 600.                            *)
(***************************************************************************)
EXTENDS Integers, Sequences, FiniteSets, TLC

VARIABLES
    op,          \* the classifier entry point called ("none" before the call)
    msg,         \* the (subject, body, sender) given to the classifier
    env,         \* the oracle's environment (credential, outcome of the request)
    returned,    \* the verdict returned
    rule,        \* the rule verdict computed on the way
    calls,       \* number of oracle calls made by the entry point
    pc,          \* run_job.main: where the run stands ("idle" between runs)
    runs,        \* run_job.main: number of runs started
    returncode,  \* run_job.main: what the last run returned
    messages,    \* run_job.main: the ids of the run's list not yet visited
    message_id,  \* run_job.main: the id being processed
    stats,       \* run_job.main: the counters of the run
    db,          \* database: the status of each id's row ("absent": no row)
    sent,        \* telegram: number of sendMessage requests made for each id
    raw_text,    \* normalize: the text given to it
    normalized   \* normalize: its results, applied once and again to its result

classifierVars == <<op, msg, env, returned, rule, calls>>
pipelineVars == <<pc, runs, returncode, messages, message_id, stats, db, sent>>
normalizeVars == <<raw_text, normalized>>
vars == <<op, msg, env, returned, rule, calls,
          pc, runs, returncode, messages, message_id, stats, db, sent,
          raw_text, normalized>>

-----------------------------------------------------------------------------
(* Characters and strings                                                  *)

NoneText == <<"<None>">>

Min(a, b) == IF a < b THEN a ELSE b
Max(a, b) == IF a > b THEN a ELSE b

\* s[a..b], empty when a > b (Python's slices never fail)
Slice(s, a, b) == [i \in 1..Max(0, Min(b, Len(s)) - a + 1) |-> s[a + i - 1]]

\* p occurs in s at position i
MatchAt(s, p, i) ==
    /\ i >= 1
    /\ i + Len(p) - 1 <= Len(s)
    /\ \A k \in 1..Len(p) : s[i + k - 1] = p[k]

\* Python's `p in s` for strings
Contains(s, p) == \E i \in 1..(Len(s) - Len(p) + 1) : MatchAt(s, p, i)

\* one left-to-right replacement pass: marks[i] says whether position i
\* gives a character of the result (keep) and which (out)
FilterMap(marks) ==
    LET Kept(m) == m.keep
        kept    == SelectSeq(marks, Kept)
    IN  [k \in 1..Len(kept) |-> kept[k].out]

HexDigits == {"0", "1", "2", "3", "4", "5", "6", "7", "8", "9",
              "a", "b", "c", "d", "e", "f", "A", "B", "C", "D", "E", "F"}

\* the percent escapes of the modelled alphabet: %20 %25 %26 %40 %41
PercentTable ==
    [h \in HexDigits \X HexDigits |->
        CASE h = <<"2", "0">> -> " "
          [] h = <<"2", "5">> -> "%"
          [] h = <<"2", "6">> -> "&"
          [] h = <<"4", "0">> -> "@"
          [] h = <<"4", "1">> -> "A"
          [] OTHER -> "?"]

\* urllib.parse.unquote: every %XX with two hex digits is replaced by its
\* character, in one left-to-right pass; any other % stays.  The two digits
\* of an escape are never a % themselves, so escapes cannot overlap.
unquote(s) ==
    LET IsEsc(i) == /\ i >= 1
                    /\ i + 2 <= Len(s)
                    /\ s[i] = "%"
                    /\ s[i + 1] \in HexDigits
                    /\ s[i + 2] \in HexDigits
        Keep(i) == ~(IsEsc(i - 1) \/ IsEsc(i - 2))
        Out(i)  == IF IsEsc(i) THEN PercentTable[<<s[i + 1], s[i + 2]>>] ELSE s[i]
    IN  FilterMap([i \in 1..Len(s) |-> [keep |-> Keep(i), out |-> Out(i)]])

\* the named character references of the modelled alphabet; html.unescape
\* accepts each of them with and without the closing semicolon.  &nbsp; is
\* U+00A0, written "NBSP" here.
Entities ==
    << [name |-> <<"a", "m", "p">>, char |-> "&"],
       [name |-> <<"l", "t">>, char |-> "<"],
       [name |-> <<"g", "t">>, char |-> ">"],
       [name |-> <<"n", "b", "s", "p">>, char |-> "NBSP"] >>

\* html.unescape: every &name; (or &name) is replaced by its character, in
\* one left-to-right pass.  An entity's name holds no &, so entities cannot
\* overlap.
html_unescape(s) ==
    LET Ent(i) == IF i >= 1 /\ i <= Len(s) /\ s[i] = "&"
                  THEN {e \in 1..Len(Entities) : MatchAt(s, Entities[e].name, i + 1)}
                  ELSE {}
        \* number of characters the reference at i spans (0: none starts at i)
        Span(i) == IF Ent(i) = {} THEN 0
                   ELSE LET e == CHOOSE x \in Ent(i) : TRUE
                            n == 1 + Len(Entities[e].name)
                        IN  IF i + n <= Len(s) /\ s[i + n] = ";" THEN n + 1 ELSE n
        Keep(i) == \A d \in 1..5 : ~(Span(i - d) > d)
        Out(i)  == IF Ent(i) = {} THEN s[i]
                   ELSE Entities[CHOOSE x \in Ent(i) : TRUE].char
    IN  FilterMap([i \in 1..Len(s) |-> [keep |-> Keep(i), out |-> Out(i)]])

\* what Python's \s matches in a str pattern, within the modelled alphabet
Whitespace == {" ", "\t", "\n", "NBSP"}

\* re.sub(r'\s\s', ' ', text): only pairs of whitespace are replaced
collapse_whitespace_Pairs(s) ==
    LET Ws(i)    == i >= 1 /\ i <= Len(s) /\ s[i] \in Whitespace
        \* position of i in its run of whitespace
        Before(i) == {0} \cup {j \in 1..i : ~Ws(j)}
        InRun(i) == i - (CHOOSE j \in Before(i) : \A h \in Before(i) : h <= j)
        Keep(i)  == ~(Ws(i) /\ InRun(i) % 2 = 0)
        Out(i)   == IF Ws(i) /\ Ws(i + 1) THEN " " ELSE s[i]
    IN  FilterMap([i \in 1..Len(s) |-> [keep |-> Keep(i), out |-> Out(i)]])

\* re.sub(r'\s+', ' ', text)
collapse_whitespace(s) ==
    LET Keep(i) == ~(s[i] \in Whitespace /\ i > 1 /\ s[i - 1] \in Whitespace)
        Out(i)  == IF s[i] \in Whitespace THEN " " ELSE s[i]
    IN  FilterMap([i \in 1..Len(s) |-> [keep |-> Keep(i), out |-> Out(i)]])

LowerOf ==
    [A |-> "a", B |-> "b", C |-> "c", D |-> "d", E |-> "e", F |-> "f", G |-> "g",
     H |-> "h", I |-> "i", J |-> "j", K |-> "k", L |-> "l", M |-> "m", N |-> "n",
     O |-> "o", P |-> "p", Q |-> "q", R |-> "r", S |-> "s", T |-> "t", U |-> "u",
     V |-> "v", W |-> "w", X |-> "x", Y |-> "y", Z |-> "z"]

\* str.lower
lower(s) == [i \in 1..Len(s) |-> IF s[i] \in DOMAIN LowerOf THEN LowerOf[s[i]] ELSE s[i]]

\* str.strip
strip(s) ==
    IF \A i \in 1..Len(s) : s[i] \in Whitespace THEN <<>>
    ELSE LET a == CHOOSE i \in 1..Len(s) :
                      s[i] \notin Whitespace /\ \A j \in 1..(i - 1) : s[j] \in Whitespace
             b == CHOOSE i \in 1..Len(s) :
                      s[i] \notin Whitespace /\ \A j \in (i + 1)..Len(s) : s[j] \in Whitespace
         IN  Slice(s, a, b)

normalize(text) ==
    IF text = NoneText \/ text = <<>> THEN <<>>
    ELSE strip(lower(collapse_whitespace(html_unescape(unquote(text)))))

-----------------------------------------------------------------------------
(* FastClassifier: the rule lists.  Each list holds entries of the list in *)
(* the source, in the source's order (a bounded selection of them); an     *)
(* entry is the phrase with its characters.                                *)

blocked_senders ==
    << [name |-> "amazon", chars |-> <<"a", "m", "a", "z", "o", "n">>],
       [name |-> "sbi", chars |-> <<"s", "b", "i">>],
       [name |-> "ola", chars |-> <<"o", "l", "a">>],
       [name |-> "noreply@", chars |-> <<"n", "o", "r", "e", "p", "l", "y", "@">>],
       [name |-> "info@", chars |-> <<"i", "n", "f", "o", "@">>] >>
blocked_subjects ==
    << [name |-> "your order", chars |-> <<"y", "o", "u", "r", " ", "o", "r", "d", "e", "r">>],
       [name |-> "sale", chars |-> <<"s", "a", "l", "e">>],
       [name |-> "otp", chars |-> <<"o", "t", "p">>] >>
blocked_body_phrases ==
    << [name |-> "shop now", chars |-> <<"s", "h", "o", "p", " ", "n", "o", "w">>],
       [name |-> "opt out", chars |-> <<"o", "p", "t", " ", "o", "u", "t">>] >>
trusted_job_senders ==
    << [name |-> "jobs-noreply@linkedin.com", chars |-> <<"j", "o", "b", "s", "-", "n", "o", "r", "e", "p", "l", "y", "@", "l", "i", "n", "k", "e", "d", "i", "n", ".", "c", "o", "m">>],
       [name |-> "@naukri.com", chars |-> <<"@", "n", "a", "u", "k", "r", "i", ".", "c", "o", "m">>],
       [name |-> "hr@", chars |-> <<"h", "r", "@">>],
       [name |-> "jobs@", chars |-> <<"j", "o", "b", "s", "@">>] >>
critical_phrases ==
    << [name |-> "move forward", chars |-> <<"m", "o", "v", "e", " ", "f", "o", "r", "w", "a", "r", "d">>],
       [name |-> "schedule an interview", chars |-> <<"s", "c", "h", "e", "d", "u", "l", "e", " ", "a", "n", " ", "i", "n", "t", "e", "r", "v", "i", "e", "w">>],
       [name |-> "next steps", chars |-> <<"n", "e", "x", "t", " ", "s", "t", "e", "p", "s">>],
       [name |-> "we'd like to", chars |-> <<"w", "e", "'", "d", " ", "l", "i", "k", "e", " ", "t", "o">>],
       [name |-> "job offer", chars |-> <<"j", "o", "b", " ", "o", "f", "f", "e", "r">>] >>
job_keywords ==
    << [name |-> "hiring", chars |-> <<"h", "i", "r", "i", "n", "g">>],
       [name |-> "apply now", chars |-> <<"a", "p", "p", "l", "y", " ", "n", "o", "w">>],
       [name |-> "job alert", chars |-> <<"j", "o", "b", " ", "a", "l", "e", "r", "t">>],
       [name |-> "software engineer", chars |-> <<"s", "o", "f", "t", "w", "a", "r", "e", " ", "e", "n", "g", "i", "n", "e", "e", "r">>] >>

\* program constants of FastClassifier.classify
BodyBlockWindow == 500
TrustedBonus == 30
CriticalWeight == 50

\* a keyword weighing 20 instead of 15
KeywordWeight_Twenty == 4 * 5

KeywordWeight == 15

\* the score divided by 50 instead of 60
K_Fifty == 25 * 2

K == 60
MaxEvidence == 5

\* n/100 as a confidence (in 1/600ths)
Pct(n) == n * 6

\* the entries of list that occur in s, in list order
Matching(list, s) ==
    LET Hit(p) == Contains(s, p.chars)
    IN  SelectSeq(list, Hit)

\* seq[:n]
Prefix(seq, n) == Slice(seq, 1, n)

Tag(kind, list) == [i \in 1..Len(list) |-> <<kind, list[i].name>>]

BlockedVerdict(kind, entry, confidence) ==
    [label |-> "OTHER", confidence |-> confidence,
     matches |-> <<<<kind, entry.name>>>>, source |-> "RULES", is_job |-> FALSE]

\* the confidence not capped at 1.0
Confidence_NoCap(score) == Max((score * Pct(100)) \div K, 0)

\* min(max(score / 60, 0), 1.0)
Confidence(score) == Min(Max((score * Pct(100)) \div K, 0), Pct(100))

\* the HR threshold at 0.75 instead of 0.85
Decide_LowHR(confidence, is_trusted_sender) ==
    IF confidence >= Pct(75) THEN <<"HR", TRUE>>
    ELSE IF confidence >= Pct(50) THEN <<"JOB", TRUE>>
    ELSE IF confidence >= Pct(30)
         THEN IF is_trusted_sender THEN <<"JOB", TRUE>> ELSE <<"UNCERTAIN", FALSE>>
    ELSE <<"OTHER", FALSE>>

\* lines 232-249, the decision thresholds: <<label, is_job>>
Decide(confidence, is_trusted_sender) ==
    IF confidence >= Pct(85) THEN <<"HR", TRUE>>
    ELSE IF confidence >= Pct(50) THEN <<"JOB", TRUE>>
    ELSE IF confidence >= Pct(30)
         THEN IF is_trusted_sender THEN <<"JOB", TRUE>> ELSE <<"UNCERTAIN", FALSE>>
    ELSE <<"OTHER", FALSE>>

\* the evidence returned whole, not cut to five entries
ScoredVerdict_AllMatches(confidence, decision, matches) ==
    [label |-> decision[1], confidence |-> confidence,
     matches |-> matches, source |-> "RULES", is_job |-> decision[2]]

\* lines 255-261, the verdict of the scoring steps
ScoredVerdict(confidence, decision, matches) ==
    [label |-> decision[1], confidence |-> confidence,
     matches |-> Prefix(matches, MaxEvidence), source |-> "RULES",
     is_job |-> decision[2]]

\* lines 200-230: the trusted-sender bonus (the first trusted marker only,
\* the loop breaks), +50 for each critical phrase, +15 for each keyword
Score(trusted, critical, keywords) ==
    TrustedBonus * Len(trusted) + CriticalWeight * Len(critical)
        + KeywordWeight * Len(keywords)

Scored(trusted, critical, keywords) ==
    ScoredVerdict(Confidence(Score(trusted, critical, keywords)),
                  Decide(Confidence(Score(trusted, critical, keywords)), trusted # <<>>),
                  Tag("trusted", trusted) \o Tag("", critical) \o Tag("", keywords))

\* steps 2 to 4 of FastClassifier.classify, on the normalized sender and
\* on text = f"{subject_norm} {body_norm}"
PositiveSignals(sender_norm, text) ==
    Scored(Prefix(Matching(trusted_job_senders, sender_norm), 1),
           Matching(critical_phrases, text),
           Matching(job_keywords, text))

\* the blocked-sender check left out
Blocklist_NoSenderCheck(bsender, bsubject, bbody, otherwise) ==
    IF bsubject # <<>> THEN BlockedVerdict("blocked_subject", bsubject[1], Pct(99))
    ELSE IF bbody # <<>> THEN BlockedVerdict("blocked_body", bbody[1], Pct(95))
    ELSE otherwise

\* step 1 of FastClassifier.classify: the first blocked entry found, by
\* sender, then subject, then body, ends the classification
Blocklist(bsender, bsubject, bbody, otherwise) ==
    IF bsender # <<>> THEN BlockedVerdict("blocked_sender", bsender[1], Pct(99))
    ELSE IF bsubject # <<>> THEN BlockedVerdict("blocked_subject", bsubject[1], Pct(99))
    ELSE IF bbody # <<>> THEN BlockedVerdict("blocked_body", bbody[1], Pct(95))
    ELSE otherwise

classify_normalized(subject_norm, body_norm, sender_norm) ==
    Blocklist(Matching(blocked_senders, sender_norm),
              Matching(blocked_subjects, subject_norm),
              Matching(blocked_body_phrases, Prefix(body_norm, BodyBlockWindow)),
              PositiveSignals(sender_norm, subject_norm \o <<" ">> \o body_norm))

\* FastClassifier.classify
classify(subject, body, sender) ==
    classify_normalized(normalize(subject), normalize(body), normalize(sender))

-----------------------------------------------------------------------------
(* The oracle.  Its environment is the configured credential and what the  *)
(* HTTP request does: it raises (transport failure, timeout), or it gives  *)
(* a status and a body.  A body is a sequence of lexical tokens (braces,   *)
(* colon, comma, space, quoted strings, numbers, bare words), written one  *)
(* after the other with nothing between them.                              *)

LB == [t |-> "{"]
RB == [t |-> "}"]
COLON == [t |-> ":"]
COMMA == [t |-> ","]
SP == [t |-> " "]
Num == [t |-> "num"]
Str(v) == [t |-> "str", v |-> v]
Word(v) == [t |-> "word", v |-> v]

\* str.upper on the strings and words of the modelled bodies
upper(v) ==
    CASE v \in {"HR", "hr"} -> "HR"
      [] v \in {"JOB", "job"} -> "JOB"
      [] v \in {"OTHER", "other"} -> "OTHER"
      [] v = "spam" -> "SPAM"
      [] v = "category" -> "CATEGORY"
      [] v = "note" -> "NOTE"

FallbackVerdict ==
    [label |-> "OTHER", confidence |-> Pct(50), source |-> "FALLBACK", is_job |-> FALSE]

\* re.search(r'\{[^}]+\}', content): <<first, last>> token of the match, or
\* <<0, 0>>.  The match starts at the first { that is followed by a token
\* other than } and by a } somewhere later, and ends at the first } after it.
json_match(content) ==
    LET Starts == {i \in 1..Len(content) :
                      /\ content[i] = LB
                      /\ i + 1 <= Len(content)
                      /\ content[i + 1] # RB
                      /\ \E j \in (i + 2)..Len(content) : content[j] = RB}
    IN  IF Starts = {} THEN <<0, 0>>
        ELSE LET i == CHOOSE x \in Starts : \A y \in Starts : x <= y
                 j == CHOOSE x \in (i + 2)..Len(content) :
                          content[x] = RB /\ \A y \in (i + 2)..(x - 1) : content[y] # RB
             IN  <<i, j>>

IsValue(tok) == tok.t \in {"str", "num"}

\* json.loads of a brace-delimited fragment: ok and the sequence of its
\* <<key, value token>> members, or not ok (a JSONDecodeError)
json_loads(fragment) ==
    LET NotSpace(tok) == tok # SP
        inner == SelectSeq(Slice(fragment, 2, Len(fragment) - 1), NotSpace)
        n     == Len(inner)
        ok    == /\ n = 0 \/ n % 4 = 3
                 /\ \A i \in 1..n :
                        CASE i % 4 = 1 -> inner[i].t = "str"
                          [] i % 4 = 2 -> inner[i] = COLON
                          [] i % 4 = 3 -> IsValue(inner[i])
                          [] OTHER     -> inner[i] = COMMA
    IN  IF ok
        THEN [ok |-> TRUE,
              data |-> [m \in 1..((n + 1) \div 4) |-> <<inner[4 * m - 3].v, inner[4 * m - 1]>>]]
        ELSE [ok |-> FALSE, data |-> <<>>]

\* data.get("category", "OTHER").upper(): not ok when the value has no
\* upper (an AttributeError)
category_of(data) ==
    LET hits == {m \in 1..Len(data) : data[m][1] = "category"}
    IN  IF hits = {} THEN [ok |-> TRUE, value |-> "OTHER"]
        ELSE LET m == CHOOSE x \in hits : \A y \in hits : x >= y
             IN  IF data[m][2].t = "str"
                 THEN [ok |-> TRUE, value |-> upper(data[m][2].v)]
                 ELSE [ok |-> FALSE, value |-> ""]

\* `"HR"` in content_upper or `: HR` in content_upper, for a token (HR, JOB)
mentions(content, token) ==
    \/ \E i \in 1..Len(content) :
           content[i].t = "str" /\ upper(content[i].v) = token
    \/ \E i \in 1..(Len(content) - 2) :
           /\ content[i] = COLON
           /\ content[i + 1] = SP
           /\ content[i + 2].t = "word"
           /\ upper(content[i + 2].v) = token

\* the substring search tried before the JSON parse
extract_category_SubstringFirst(content) ==
    LET m == json_match(content)
    IN  IF mentions(content, "HR") THEN "HR"
        ELSE IF mentions(content, "JOB") THEN "JOB"
        ELSE IF m = <<0, 0>> THEN "OTHER"
        ELSE LET loaded == json_loads(Slice(content, m[1], m[2]))
                 cat    == category_of(loaded.data)
             IN  IF ~loaded.ok THEN "OTHER"
                 ELSE IF ~cat.ok THEN "OTHER"
                 ELSE cat.value

\* lines 314-328: the category taken from the response body
extract_category(content) ==
    LET m == json_match(content)
    IN  IF m # <<0, 0>>
        THEN LET loaded == json_loads(Slice(content, m[1], m[2]))
                 cat    == category_of(loaded.data)
             IN  IF ~loaded.ok THEN "OTHER"
                 ELSE IF ~cat.ok THEN "OTHER"
                 ELSE cat.value
        ELSE IF mentions(content, "HR") THEN "HR"
        ELSE IF mentions(content, "JOB") THEN "JOB"
        ELSE "OTHER"

\* is_job forgotten for HR
AiVerdict_JobOnly(res) ==
    [label |-> res, confidence |-> Pct(85), source |-> "AI", is_job |-> res = "JOB"]

\* lines 330-333
AiVerdict(res) ==
    [label |-> res, confidence |-> Pct(85), source |-> "AI",
     is_job |-> res \in {"HR", "JOB"}]

\* the status of the response not looked at
classify_with_llm_AnyStatus(subject, body, sender, e) ==
    IF ~e.key THEN FallbackVerdict
    ELSE IF e.raises THEN FallbackVerdict
    ELSE AiVerdict(extract_category(e.body))

classify_with_llm(subject, body, sender, e) ==
    IF ~e.key THEN FallbackVerdict
    ELSE IF e.raises THEN FallbackVerdict
    ELSE IF e.status # 200 THEN FallbackVerdict
    ELSE AiVerdict(extract_category(e.body))

\* llm_result["matches"] = result.get("matches", [])
WithMatches(llm_result, result) ==
    [f \in DOMAIN llm_result \cup {"matches"} |->
        IF f = "matches" THEN result.matches ELSE llm_result[f]]

\* every verdict in the band escalated, whatever its label
Escalation_AnyLabel(result, subject, body, sender, e) ==
    IF result.confidence >= Pct(50) \/ result.confidence <= Pct(10)
    THEN [ret |-> result, llm |-> 0, rule |-> result]
    ELSE [ret |-> WithMatches(classify_with_llm(subject, body, sender, e), result),
          llm |-> 1, rule |-> result]

\* every verdict in the band sent to the oracle, and a failed call made again
Escalation_Retry(result, subject, body, sender, e) ==
    IF result.confidence >= Pct(50) \/ result.confidence <= Pct(10)
    THEN [ret |-> result, llm |-> 0, rule |-> result]
    ELSE [ret |-> WithMatches(classify_with_llm(subject, body, sender, e), result),
          llm |-> IF classify_with_llm(subject, body, sender, e).source = "FALLBACK"
                  THEN 2 ELSE 1,
          rule |-> result]

\* lines 345-356 of classify_email, result being the rule verdict: the
\* verdict returned (ret), the number of times classify_with_llm was called
\* (llm) and the rule verdict (rule)
Escalation(result, subject, body, sender, e) ==
    IF result.confidence >= Pct(50) \/ result.confidence <= Pct(10)
    THEN [ret |-> result, llm |-> 0, rule |-> result]
    ELSE IF result.label = "UNCERTAIN"
    THEN [ret |-> WithMatches(classify_with_llm(subject, body, sender, e), result),
          llm |-> 1, rule |-> result]
    ELSE [ret |-> result, llm |-> 0, rule |-> result]

classify_email_run(subject, body, sender, e) ==
    Escalation(classify(subject, body, sender), subject, body, sender, e)

classify_email(subject, body, sender, e) == classify_email_run(subject, body, sender, e).ret

-----------------------------------------------------------------------------
(* Inputs of the classifier                                                *)

S_hr == <<"h", "r", "@", "a", "c", "m", "e", "c", "o", "r", "p", ".", "c", "o", "m">>
S_amazon == <<"n", "o", "r", "e", "p", "l", "y", "@", "a", "m", "a", "z", "o", "n", ".", "c", "o", "m">>
S_random == <<"r", "a", "n", "d", "o", "m", "@", "s", "m", "a", "l", "l", "s", "t", "a", "r", "t", "u", "p", ".", "i", "o">>
S_naukri == <<"H", "R", "%", "4", "0", "N", "a", "u", "k", "r", "i", ".", "c", "o", "m">>
S_linkedin == <<"j", "o", "b", "s", "-", "n", "o", "r", "e", "p", "l", "y", "@", "l", "i", "n", "k", "e", "d", "i", "n", ".", "c", "o", "m">>
J_order == <<"Y", "o", "u", "r", " ", "o", "r", "d", "e", "r", " ", "h", "a", "s", " ", "s", "h", "i", "p", "p", "e", "d">>
J_interview == <<"W", "e", "'", "d", " ", "l", "i", "k", "e", " ", "t", "o", " ", "s", "c", "h", "e", "d", "u", "l", "e", " ", "a", "n", " ", "i", "n", "t", "e", "r", "v", "i", "e", "w">>
B_hiring == <<"h", "i", "r", "i", "n", "g", " ">>
B_keywords == <<"A", "p", "p", "l", "y", "%", "2", "0", "N", "o", "w", " ", "-", " ", "j", "o", "b", "\n", "a", "l", "e", "r", "t", " ">>
\* the body of the scenario with a recruiter's message
B_forward == <<"m", "o", "v", "e", " ", "f", "o", "r", "w", "a", "r", "d", " ">>
B_steps == <<"n", "e", "x", "t", " ", " ", "s", "t", "e", "p", "s", " ", "&", "a", "m", "p", ";", " ", "J", "o", "b", "&", "n", "b", "s", "p", ";", "O", "f", "f", "e", "r", " ">>
B_shop == <<"S", "h", "o", "p", " ", "N", "o", "w", " ">>

\* filler that is longer than the window in which body phrases are blocked
B_pad == [i \in 1..BodyBlockWindow |-> "x"] \o <<" ">>

Senders == {NoneText, S_hr, S_amazon, S_random, S_naukri, S_linkedin}
Subjects == {NoneText, <<>>, J_order, J_interview}
BodyParts == {B_hiring, B_keywords, B_steps, B_shop}

\* a body is None, or at most MaxBodyParts parts, one after the other, or
\* one part with the filler before or after it
MaxBodyParts == 2

RECURSIVE Concat(_)
Concat(parts) == IF parts = <<>> THEN <<>> ELSE Head(parts) \o Concat(Tail(parts))

SeqsUpTo(S, n) == UNION {[1..k -> S] : k \in 0..n}

Bodies ==
    {NoneText}
    \cup {Concat(ps) : ps \in SeqsUpTo(BodyParts, MaxBodyParts)}
    \cup {B_pad \o part : part \in BodyParts}
    \cup {part \o B_pad : part \in BodyParts}

Messages == [subject : Subjects, body : Bodies, sender : Senders]

\* the messages of the specification's scenarios
CoreMessages ==
    { [subject |-> J_order, body |-> <<>>, sender |-> S_amazon],
      [subject |-> J_interview, body |-> B_forward, sender |-> S_hr],
      [subject |-> <<>>, body |-> B_hiring, sender |-> S_random] }

\* response bodies are at most MaxResponseParts parts, one after the other
MaxResponseParts == 2

ResponseParts ==
    { <<LB, Str("category"), COLON, Str("JOB"), RB>>,
      <<LB, Str("category"), COLON, SP, Str("hr"), RB>>,
      <<LB, Str("category"), COLON, Str("OTHER"), RB>>,
      <<LB, Str("category"), COLON, Str("spam"), RB>>,
      <<LB, Str("category"), COLON, Num, RB>>,
      <<LB, Str("note"), COLON, Num, RB>>,
      <<LB, Str("note"), COLON, LB, Str("note"), COLON, Num, RB, COMMA,
        Str("category"), COLON, Str("JOB"), RB>>,
      <<LB>>,
      <<LB, RB>>,
      <<Str("HR")>>,
      <<Word("category"), COLON, SP, Word("job")>> }

ResponseBodies == {Concat(ps) : ps \in SeqsUpTo(ResponseParts, MaxResponseParts)}

NoBody == <<>>

Envs ==
    [key : BOOLEAN, raises : {TRUE}, status : {0}, body : {NoBody}]
    \cup [key : BOOLEAN, raises : {FALSE}, status : {429, 500}, body : {NoBody}]
    \cup [key : BOOLEAN, raises : {FALSE}, status : {200}, body : ResponseBodies]

CoreEnvs ==
    { [key |-> FALSE, raises |-> FALSE, status |-> 200, body |-> NoBody],
      [key |-> TRUE, raises |-> FALSE, status |-> 200,
       body |-> <<LB, Str("category"), COLON, Str("spam"), RB>>] }

-----------------------------------------------------------------------------
(* The mailbox, the database and the notification channel                  *)

\* what get_message_details returns for each message id of the mailbox
Mail ==
    [m1 |-> [subject |-> J_interview, body |-> B_forward, sender |-> S_hr],
     m2 |-> [subject |-> <<>>, body |-> B_hiring, sender |-> S_random],
     m3 |-> [subject |-> J_order, body |-> <<>>, sender |-> S_amazon]]

MessageIds == DOMAIN Mail

\* get_message_details returned None
NoDetails == [subject |-> NoneText, body |-> NoneText, sender |-> NoneText]

\* a run lists at most MaxBatch ids (config.MAX_EMAILS_PER_RUN)
MaxBatch == 2

\* number of runs of the program
MaxRuns == 2

\* the unread messages stay unread, so a list may name any id again, and
\* the property is wanted for a list that names an id twice, too
Listings == SeqsUpTo(MessageIds, MaxBatch)

EmailStatus == {"RECEIVED", "PROCESSING", "DONE", "SKIPPED", "FAILED"}

NoStats == [processed |-> 0, notified |-> 0, skipped |-> 0, failed |-> 0]

Count(s, field) == [s EXCEPT ![field] = @ + 1]

\* only a row that is settled counts: a failed or unfinished one is taken up
\* again
email_exists_RetryFailed(d, id) == d[id] \in {"DONE", "SKIPPED"}

email_exists(d, id) == d[id] # "absent"

\* the row not written
save_email_NotStored(d, id) == d

save_email(d, id) == [d EXCEPT ![id] = "PROCESSING"]

update_email_status(d, id, status) ==
    IF d[id] # "absent" THEN [d EXCEPT ![id] = status] ELSE d

\* the notification channel: the credentials configured or not, and what
\* the sendMessage request does
Channels ==
    { [configured |-> FALSE, raises |-> FALSE, status |-> 200],
      [configured |-> TRUE, raises |-> TRUE, status |-> 0],
      [configured |-> TRUE, raises |-> FALSE, status |-> 400],
      [configured |-> TRUE, raises |-> FALSE, status |-> 200] }

\* send_telegram's result
send_telegram(ch) == ch.configured /\ ~ch.raises /\ ch.status = 200

\* number of sendMessage requests send_telegram makes
Requests(ch) == IF ch.configured THEN 1 ELSE 0

-----------------------------------------------------------------------------
(* The classifier's entry points, each applied to one input                *)

NoVerdict == [label |-> "none"]

NoDatabase == [id \in MessageIds |-> "absent"]
NothingSent == [id \in MessageIds |-> 0]

InitPipeline ==
    /\ pc = "idle"
    /\ runs = 0
    /\ returncode = 0
    /\ messages = <<>>
    /\ message_id = "none"
    /\ stats = NoStats
    /\ db = NoDatabase
    /\ sent = NothingSent

\* normalize has not been called
NoNormalization ==
    /\ raw_text = NoneText
    /\ normalized = <<>>

InitClassifier ==
    /\ op = "none"
    /\ \/ msg \in Messages /\ env \in CoreEnvs
       \/ msg \in CoreMessages /\ env \in Envs
    /\ returned = NoVerdict
    /\ rule = NoVerdict
    /\ calls = 0
    /\ InitPipeline
    /\ NoNormalization

\* fast_classifier.classify(subject, body, sender)
CallFastClassify ==
    /\ op = "none"
    /\ op' = "FastClassifier.classify"
    /\ rule' = classify(msg.subject, msg.body, msg.sender)
    /\ returned' = rule'
    /\ calls' = 0
    /\ UNCHANGED <<msg, env>>
    /\ UNCHANGED pipelineVars
    /\ UNCHANGED normalizeVars

\* classify_with_llm(subject, body, sender)
CallClassifyWithLlm ==
    /\ op = "none"
    /\ op' = "classify_with_llm"
    /\ returned' = classify_with_llm(msg.subject, msg.body, msg.sender, env)
    /\ calls' = 1
    /\ UNCHANGED <<msg, env, rule>>
    /\ UNCHANGED pipelineVars
    /\ UNCHANGED normalizeVars

Returns(r) == returned' = r.ret /\ calls' = r.llm /\ rule' = r.rule

\* classify_email(subject, body, sender)
CallClassifyEmail ==
    /\ op = "none"
    /\ op' = "classify_email"
    /\ Returns(classify_email_run(msg.subject, msg.body, msg.sender, env))
    /\ UNCHANGED <<msg, env>>
    /\ UNCHANGED pipelineVars
    /\ UNCHANGED normalizeVars

NextClassifier == CallFastClassify \/ CallClassifyWithLlm \/ CallClassifyEmail

SpecClassifier == InitClassifier /\ [][NextClassifier]_vars

-----------------------------------------------------------------------------
(* run_job.main, one action for each step of a run.  The program is run    *)
(* again and again (one process at a time); the database and the mailbox   *)
(* outlive a run.                                                          *)

\* no classification is in progress: the locals of main hold nothing
NoClassification ==
    [op |-> "none", msg |-> NoDetails, env |-> CHOOSE e \in CoreEnvs : ~e.key,
     returned |-> NoVerdict, rule |-> NoVerdict, calls |-> 0]

Init ==
    /\ op = NoClassification.op
    /\ msg = NoClassification.msg
    /\ env = NoClassification.env
    /\ returned = NoClassification.returned
    /\ rule = NoClassification.rule
    /\ calls = NoClassification.calls
    /\ InitPipeline
    /\ NoNormalization

\* main returns and the process ends: its locals are gone
ProcessExits(code) ==
    /\ pc' = "idle"
    /\ returncode' = code
    /\ messages' = <<>>
    /\ message_id' = "none"
    /\ op' = NoClassification.op
    /\ msg' = NoClassification.msg
    /\ env' = NoClassification.env
    /\ returned' = NoClassification.returned
    /\ rule' = NoClassification.rule
    /\ calls' = NoClassification.calls

\* the loop goes on with the next message of the list
NextMessage == messages' = Tail(messages) /\ pc' = "loop"

\* lines 27-40: the run starts and lists the unread messages; an empty list
\* (no unread message, or get_unread_messages failed) ends the run with 0
StartRun ==
    /\ pc = "idle"
    /\ runs < MaxRuns
    /\ runs' = runs + 1
    /\ stats' = NoStats
    /\ \E listing \in Listings :
           /\ messages' = listing
           /\ pc' = IF listing = <<>> THEN "idle" ELSE "loop"
    /\ returncode' = 0
    /\ message_id' = "none"
    /\ UNCHANGED <<db, sent>>
    /\ UNCHANGED classifierVars
    /\ UNCHANGED normalizeVars

\* lines 31-32 raise (no database, no mailbox credentials): the run ends with 1
StartFails ==
    /\ pc = "idle"
    /\ runs < MaxRuns
    /\ runs' = runs + 1
    /\ stats' = NoStats
    /\ returncode' = 1
    /\ UNCHANGED <<pc, messages, message_id, db, sent>>
    /\ UNCHANGED classifierVars
    /\ UNCHANGED normalizeVars

\* lines 43-49: the next id of the list; an id with a row is passed over
CheckExists ==
    /\ pc = "loop"
    /\ messages # <<>>
    /\ message_id' = Head(messages)
    /\ IF email_exists(db, Head(messages))
       THEN NextMessage
       ELSE pc' = "fetch" /\ UNCHANGED messages
    /\ UNCHANGED <<runs, returncode, stats, db, sent>>
    /\ UNCHANGED classifierVars
    /\ UNCHANGED normalizeVars

\* lines 52-56: the details are fetched; on a failure the message is
\* counted as failed and left without a row
FetchDetails ==
    /\ pc = "fetch"
    /\ \/ /\ msg' = Mail[message_id]
          /\ pc' = "save"
          /\ UNCHANGED <<messages, stats>>
       \/ /\ msg' = NoDetails
          /\ stats' = Count(stats, "failed")
          /\ NextMessage
    /\ op' = "none"
    /\ returned' = NoVerdict
    /\ rule' = NoVerdict
    /\ calls' = 0
    /\ UNCHANGED <<env, runs, returncode, message_id, db, sent>>
    /\ UNCHANGED normalizeVars

\* lines 62-68: the row is written with status PROCESSING; writing a row
\* for an id that has one violates the primary key and raises
SaveEmail ==
    /\ pc = "save"
    /\ IF email_exists(db, message_id)
       THEN ProcessExits(1) /\ UNCHANGED db
       ELSE /\ db' = save_email(db, message_id)
            /\ pc' = "classify"
            /\ UNCHANGED <<returncode, messages, message_id>>
            /\ UNCHANGED classifierVars
    /\ UNCHANGED <<runs, stats, sent>>
    /\ UNCHANGED normalizeVars

\* the oracle environments a run may meet: no credential, an answer, a
\* request that fails or times out
PipelineEnvs ==
    CoreEnvs \cup {[key |-> TRUE, raises |-> TRUE, status |-> 0, body |-> NoBody]}

\* lines 71-75 of main, line 343 of classify_email: the call starts with the
\* rule verdict
ScoreRules ==
    /\ pc = "classify"
    /\ rule' = classify(msg.subject, msg.body, msg.sender)
    /\ pc' = "rule_scored"
    /\ UNCHANGED <<op, msg, env, returned, calls>>
    /\ UNCHANGED <<runs, returncode, messages, message_id, stats, db, sent>>
    /\ UNCHANGED normalizeVars

\* lines 345-356 of classify_email, lines 77-80 of main: the rule verdict is
\* final or the oracle is asked, whatever the oracle would do, and the
\* call returns
Classify ==
    /\ pc = "rule_scored"
    /\ \E e \in PipelineEnvs :
           /\ env' = e
           /\ Returns(Escalation(rule, msg.subject, msg.body, msg.sender, e))
    /\ op' = "classify_email"
    /\ pc' = "classified"
    /\ UNCHANGED <<msg, runs, returncode, messages, message_id, stats, db, sent>>
    /\ UNCHANGED normalizeVars

\* lines 85-93 and 97-99: a job verdict is notified; send_telegram makes its
\* request when the channel is configured, and says whether it succeeded
SendTelegram ==
    /\ pc = "classified"
    /\ returned.is_job
    /\ \E ch \in Channels :
           /\ sent' = [sent EXCEPT ![message_id] = @ + Requests(ch)]
           /\ pc' = IF send_telegram(ch) THEN "notified" ELSE "notify_failed"
    /\ UNCHANGED <<runs, returncode, messages, message_id, stats, db>>
    /\ UNCHANGED classifierVars
    /\ UNCHANGED normalizeVars

\* lines 94-96 and 105
MarkDone ==
    /\ pc = "notified"
    /\ db' = update_email_status(db, message_id, "DONE")
    /\ stats' = Count(Count(stats, "notified"), "processed")
    /\ NextMessage
    /\ UNCHANGED <<runs, returncode, message_id, sent>>
    /\ UNCHANGED classifierVars
    /\ UNCHANGED normalizeVars

\* lines 97-99 and 105
MarkFailed ==
    /\ pc = "notify_failed"
    /\ db' = update_email_status(db, message_id, "FAILED")
    /\ stats' = Count(Count(stats, "failed"), "processed")
    /\ NextMessage
    /\ UNCHANGED <<runs, returncode, message_id, sent>>
    /\ UNCHANGED classifierVars
    /\ UNCHANGED normalizeVars

\* lines 100-105: a verdict that is no job is not notified
MarkSkipped ==
    /\ pc = "classified"
    /\ ~returned.is_job
    /\ db' = update_email_status(db, message_id, "SKIPPED")
    /\ stats' = Count(Count(stats, "skipped"), "processed")
    /\ NextMessage
    /\ UNCHANGED <<runs, returncode, message_id, sent>>
    /\ UNCHANGED classifierVars
    /\ UNCHANGED normalizeVars

\* lines 107-118: the list is exhausted, the run ends with 0
Finish ==
    /\ pc = "loop"
    /\ messages = <<>>
    /\ ProcessExits(0)
    /\ UNCHANGED <<runs, stats, db, sent>>
    /\ UNCHANGED normalizeVars

\* where a database call is the next thing the run does: email_exists,
\* save_email, update_email_status
AtDatabaseCall ==
    \/ pc = "loop" /\ messages # <<>>
    \/ pc = "save"
    \/ pc \in {"notified", "notify_failed"}
    \/ pc = "classified" /\ ~returned.is_job

\* lines 120-124: the database call raises (the session is rolled back,
\* nothing is written) and the run ends with 1
Abort ==
    /\ AtDatabaseCall
    /\ ProcessExits(1)
    /\ UNCHANGED <<runs, stats, db, sent>>
    /\ UNCHANGED normalizeVars

Next ==
    \/ StartRun
    \/ StartFails
    \/ CheckExists
    \/ FetchDetails
    \/ SaveEmail
    \/ ScoreRules
    \/ Classify
    \/ SendTelegram
    \/ MarkDone
    \/ MarkFailed
    \/ MarkSkipped
    \/ Finish
    \/ Abort

Spec == Init /\ [][Next]_vars

\* classify_email is a synchronous call made of bounded steps (the oracle
\* request has a timeout): once started, each of its steps is taken
SpecFair == Spec /\ WF_vars(ScoreRules) /\ WF_vars(Classify)

-----------------------------------------------------------------------------
(* normalize on its own: a text is given to it, and its result is given   *)
(* to it again.                                                            *)

T_percent  == <<"%", "2", "5">>
T_hex      == <<"4", "1">>
T_space    == <<"%", "2", "0">>
T_amp      == <<"&", "a", "m", "p", ";">>
T_ampname  == <<"a", "m", "p", ";">>
T_nbsp     == <<"&", "n", "b", "s", "p", ";">>
T_upper    == <<"A", " ", " ">>
T_lines    == <<" ", "\n", "b">>
T_amppct   == <<"%", "2", "6">>

TextParts == {T_percent, T_hex, T_space, T_amp, T_ampname, T_nbsp, T_upper,
              T_lines, T_amppct}

MaxTextParts == 2

\* None, the empty string and the texts made of at most MaxTextParts parts
Texts == {NoneText} \cup {Concat(ps) : ps \in SeqsUpTo(TextParts, MaxTextParts)}

MaxApplications == 2

InitNormalize ==
    /\ raw_text \in Texts
    /\ normalized = <<>>
    /\ op = NoClassification.op
    /\ msg = NoClassification.msg
    /\ env = NoClassification.env
    /\ returned = NoClassification.returned
    /\ rule = NoClassification.rule
    /\ calls = NoClassification.calls
    /\ InitPipeline

\* normalize(text), then normalize of what it returned
CallNormalize ==
    /\ Len(normalized) < MaxApplications
    /\ normalized' = Append(normalized,
                            normalize(IF normalized = <<>> THEN raw_text
                                      ELSE normalized[Len(normalized)]))
    /\ UNCHANGED <<raw_text, classifierVars, pipelineVars>>

NextNormalize == CallNormalize

SpecNormalize == InitNormalize /\ [][NextNormalize]_vars

-----------------------------------------------------------------------------
(* Properties of the classifier, checked under SpecClassifier              *)

Labels == {"HR", "JOB", "OTHER"}
VerdictFields == {"label", "confidence", "matches", "source", "is_job"}

\* what the rule engine sees of the input; blocked and trusted say which
\* lists have an entry in the normalized sender, subject and body
Occurs(s, phrase) == \E i \in 1..Len(s) : MatchAt(s, phrase.chars, i)
AnyOf(list, s) == \E n \in 1..Len(list) : Occurs(s, list[n])
CountOf(list, s) == Cardinality({n \in 1..Len(list) : Occurs(s, list[n])})
OccursInWindow(s, phrase) ==
    \E i \in 1..(BodyBlockWindow - Len(phrase.chars) + 1) : MatchAt(s, phrase.chars, i)
SeenOf(sender_norm, subject_norm, body_norm) ==
    [sender   |-> AnyOf(blocked_senders, sender_norm),
     subject  |-> AnyOf(blocked_subjects, subject_norm),
     body     |-> \E n \in 1..Len(blocked_body_phrases) :
                      OccursInWindow(body_norm, blocked_body_phrases[n]),
     trusted  |-> AnyOf(trusted_job_senders, sender_norm),
     critical |-> CountOf(critical_phrases, subject_norm \o <<" ">> \o body_norm),
     keywords |-> CountOf(job_keywords, subject_norm \o <<" ">> \o body_norm)]
Seen == SeenOf(normalize(msg.sender), normalize(msg.subject), normalize(msg.body))

OracleAnswers == env.key /\ ~env.raises /\ env.status = 200

\* C1: classify_email is total: for every input, None and empty fields
\* included, and every oracle outcome, it returns a verdict (all five
\* fields) whose label is HR, JOB or OTHER, never UNCERTAIN or another label.
C1_Totality ==
    op = "classify_email" =>
        /\ DOMAIN returned = VerdictFields
        /\ returned.label \in Labels

C1_Witness ==
    /\ op = "classify_email"
    /\ msg.subject = NoneText /\ msg.body = NoneText /\ msg.sender = NoneText
    /\ OracleAnswers
    /\ returned.label = "OTHER"

\* C2: classify_email calls classify_with_llm exactly when the rule
\* confidence lies strictly between 0.1 and 0.5 and the rule label is
\* UNCERTAIN; in every other case (confidence >= 0.5, confidence <= 0.1, or
\* another label in the band) the rule verdict is returned unchanged, with
\* source RULES, and the oracle is not called.
C2_EscalationBoundary ==
    op = "classify_email" =>
        LET inBand == rule.confidence > Pct(10) /\ rule.confidence < Pct(50)
            escalates == inBand /\ rule.label = "UNCERTAIN"
        IN  /\ calls = (IF escalates THEN 1 ELSE 0)
            /\ ~escalates => returned = rule /\ returned.source = "RULES"

C2_Witness ==
    /\ op = "classify_email"
    /\ rule.confidence > Pct(10) /\ rule.confidence < Pct(50)
    /\ rule.label = "OTHER"
    /\ returned = rule
    /\ calls = 0

\* C3: the blocklist dominates every positive signal: a blocked sender
\* gives OTHER at 0.99, a blocked subject (sender not blocked) gives OTHER
\* at 0.99, a blocked body phrase in the first 500 characters of the
\* normalized body (sender and subject not blocked) gives OTHER at 0.95,
\* each with source RULES, is_job false and exactly one evidence tag,
\* whatever trusted markers, critical phrases or keywords the message holds,
\* and the oracle is not called.
BlockedAs(seen) ==
    /\ returned.label = "OTHER"
    /\ returned.source = "RULES"
    /\ returned.is_job = FALSE
    /\ Len(returned.matches) = 1
    /\ calls = 0
    /\ returned.confidence = (IF seen.sender \/ seen.subject THEN Pct(99) ELSE Pct(95))
    /\ returned.matches[1][1] =
           (IF seen.sender THEN "blocked_sender"
            ELSE IF seen.subject THEN "blocked_subject" ELSE "blocked_body")

BlocklistDominates(seen) == seen.sender \/ seen.subject \/ seen.body => BlockedAs(seen)

C3_BlocklistPrecedence == op = "classify_email" => BlocklistDominates(Seen)

BlockedDespiteSignals(seen) ==
    /\ seen.sender
    /\ seen.trusted
    /\ seen.critical >= 2
    /\ seen.keywords >= 1
    /\ returned.label = "OTHER"
    /\ returned.confidence = Pct(99)

C3_Witness == op = "classify_email" /\ BlockedDespiteSignals(Seen)

\* the string and word tokens of a response body that are not the key of
\* an object member
ValueTokens(content) ==
    {n \in 1..Len(content) :
        /\ content[n].t \in {"str", "word"}
        /\ content[n].v \notin {"category", "note"}}

\* the oracle failed: no credential, a transport failure or timeout, a
\* status other than 200
OracleFailed == ~env.key \/ env.raises \/ env.status # 200

\* the oracle answered with a body that names no category at all
NoCategoryToken == OracleAnswers /\ ValueTokens(env.body) = {}

-----------------------------------------------------------------------------
(* Properties of the run loop, checked under Spec                          *)

\* C5: no message is notified twice: over any sequence of runs, and with
\* an id named several times in one list, at most one notification request
\* is made for each message id; an id that has a row is passed over before
\* it is fetched, classified or notified (an id being fetched or saved has
\* no row), and a message has its row before it is classified (an id being
\* classified or notified has its row, in status PROCESSING).
C5_NotifiedAtMostOnce ==
    /\ \A id \in MessageIds : sent[id] <= 1
    /\ pc \in {"fetch", "save"} => db[message_id] = "absent"
    /\ pc \in {"classify", "rule_scored", "classified", "notified", "notify_failed"} =>
           db[message_id] = "PROCESSING"

\* in a second run, a list that names only the id notified by the first
\* run has been gone through, and nothing was fetched or processed
C5_Witness ==
    /\ runs = 2
    /\ pc = "loop"
    /\ messages = <<>>
    /\ message_id = "m1"
    /\ stats = NoStats
    /\ sent = [NothingSent EXCEPT !["m1"] = 1]
    /\ db = [NoDatabase EXCEPT !["m1"] = "DONE"]

-----------------------------------------------------------------------------
(* Properties of the oracle's answers, checked under SpecClassifier        *)

\* the JSON objects with category X that the modelled bodies can hold:
\* {"category":"X"} and {"note":{"note":7},"category":"X"}
ObjectsWith(X) ==
    { <<LB, Str("category"), COLON, Str(X), RB>>,
      <<LB, Str("note"), COLON, LB, Str("note"), COLON, Num, RB, COMMA,
        Str("category"), COLON, Str(X), RB>> }

\* the body contains a JSON object with category X
HoldsObject(content, X) ==
    \E i \in 1..Len(content) : \E obj \in ObjectsWith(X) :
        Slice(content, i, i + Len(obj) - 1) = obj

\* the categories the body names: the strings that follow "category":
CategoriesNamed(content) ==
    {upper(content[i].v) : i \in {n \in 3..Len(content) :
        /\ content[n].t = "str"
        /\ \/ content[n - 1] = COLON /\ content[n - 2] = Str("category")
           \/ /\ n > 3
              /\ content[n - 1] = SP
              /\ content[n - 2] = COLON
              /\ content[n - 3] = Str("category")}}

Braces(content) == {n \in 1..Len(content) : content[n] \in {LB, RB}}

AnswersAs(X) ==
    /\ returned.label = X
    /\ returned.confidence = Pct(85)
    /\ returned.source = "AI"

\* C6 as claimed: when the oracle call succeeds with a body containing a
\* JSON object with category X, X one of HR, JOB, OTHER (and naming no other
\* category), the verdict has label X, confidence 0.85, source AI.
C6_OracleCategory ==
    op = "classify_with_llm" /\ OracleAnswers =>
        \A X \in Labels :
            HoldsObject(env.body, X) /\ CategoriesNamed(env.body) = {X} => AnswersAs(X)

\* C6 as amended: when the oracle call succeeds with a body containing a
\* JSON object with category X, X one of HR, JOB, OTHER, and no brace other
\* than the opening and the closing brace of that object, the verdict has
\* label X, confidence 0.85, source AI.
C6_OracleOnlyObject ==
    op = "classify_with_llm" /\ OracleAnswers =>
        \A X \in Labels :
            HoldsObject(env.body, X) /\ Cardinality(Braces(env.body)) = 2 => AnswersAs(X)

\* the object comes after other text that names a category
C6_Witness ==
    /\ op = "classify_with_llm"
    /\ OracleAnswers
    /\ env.body = <<Str("HR"), LB, Str("category"), COLON, Str("JOB"), RB>>
    /\ AnswersAs("JOB")

-----------------------------------------------------------------------------
(* Properties of the verdicts, checked under SpecClassifier                *)

IsJobConsistent(v) == v.is_job <=> v.label \in {"HR", "JOB"}

\* C8: in every verdict returned by FastClassifier.classify, by
\* classify_with_llm and by classify_email, and in the rule verdict behind
\* it, is_job is true exactly when the label is HR or JOB.
C8_IsJobMatchesLabel ==
    op # "none" =>
        /\ IsJobConsistent(returned)
        /\ rule # NoVerdict => IsJobConsistent(rule)

C8_Witness ==
    /\ op = "classify_with_llm"
    /\ returned.source = "AI"
    /\ returned.label = "HR"
    /\ returned.is_job

FromBlocklist(v) ==
    /\ Len(v.matches) = 1
    /\ v.matches[1][1] \in {"blocked_sender", "blocked_subject", "blocked_body"}

ConfidenceOrdered(v) ==
    /\ v.label = "HR" => v.confidence >= Pct(85)
    /\ v.label = "OTHER" /\ v.source = "RULES" =>
           v.confidence < Pct(30) \/ FromBlocklist(v)

\* C9: every verdict labelled HR has confidence >= 0.85, and every verdict
\* labelled OTHER with source RULES has confidence < 0.3 or comes from a
\* blocklist match.
C9_ConfidenceOrdering ==
    op # "none" =>
        /\ ConfidenceOrdered(returned)
        /\ rule # NoVerdict => ConfidenceOrdered(rule)

C9_Witness ==
    /\ op = "classify_email"
    /\ returned.label = "OTHER"
    /\ returned.source = "RULES"
    /\ returned.confidence > 0
    /\ returned.confidence < Pct(30)
    /\ ~FromBlocklist(returned)

OneWeakKeyword(seen) ==
    /\ ~seen.sender /\ ~seen.subject /\ ~seen.body
    /\ ~seen.trusted
    /\ seen.critical = 0
    /\ seen.keywords = 1

EscalatedToFallback ==
    /\ rule.confidence >= Pct(30) /\ rule.confidence < Pct(50)
    /\ rule.label = "UNCERTAIN"
    /\ calls = 1
    /\ returned.label = "OTHER"
    /\ returned.confidence = Pct(50)
    /\ returned.source = "FALLBACK"

\* C10: a message that matches no blocklist rule, has no trusted marker in
\* its sender and holds exactly one keyword and no critical phrase gets a
\* rule confidence in [0.3, 0.5) and the rule label UNCERTAIN, is escalated,
\* and with no oracle credential ends as OTHER, 0.5, FALLBACK.
C10_WeakKeywordEscalates ==
    op = "classify_email" /\ ~env.key /\ OneWeakKeyword(Seen) => EscalatedToFallback


-----------------------------------------------------------------------------
(* Properties of the rule scorer, checked under SpecClassifier             *)

NotBlocked(seen) == ~seen.sender /\ ~seen.subject /\ ~seen.body

\* the score of what the rule engine sees: 30 for a trusted sender, 50 for
\* each critical phrase, 15 for each keyword
ScoreSeen(seen) ==
    30 * (IF seen.trusted THEN 1 ELSE 0) + 50 * seen.critical + 15 * seen.keywords

\* clamp(score / 60, 0, 1), in 1/600ths
Clamped(score) ==
    IF score * 10 < 0 THEN 0 ELSE IF score * 10 > 600 THEN 600 ELSE score * 10

LabelFor(confidence, trusted) ==
    CASE confidence >= 510 -> "HR"
      [] confidence >= 300 /\ confidence < 510 -> "JOB"
      [] confidence >= 180 /\ confidence < 300 -> IF trusted THEN "JOB" ELSE "UNCERTAIN"
      [] confidence < 180 -> "OTHER"

ScoredAs(seen) ==
    /\ returned.confidence = Clamped(ScoreSeen(seen))
    /\ returned.label = LabelFor(returned.confidence, seen.trusted)
    /\ returned.source = "RULES"

\* C11: for every message that matches no blocklist rule, the rule
\* scorer's confidence is clamp(score / K, 0, 1) and its label is HR when
\* confidence >= 0.85, JOB when 0.5 <= confidence < 0.85, in [0.3, 0.5) JOB
\* for a trusted sender and UNCERTAIN otherwise, OTHER below 0.3; the
\* source is RULES.
C11_ScoreToLabel ==
    op = "FastClassifier.classify" /\ NotBlocked(Seen) => ScoredAs(Seen)

\* two critical phrases and more: the score is above K and the confidence 1.0
C11_Witness ==
    /\ op = "FastClassifier.classify"
    /\ NotBlocked(Seen)
    /\ ScoreSeen(Seen) > 60
    /\ returned.confidence = 600
    /\ returned.label = "HR"

-----------------------------------------------------------------------------
(* Properties of the category extraction, checked under SpecClassifier     *)

\* the body has no brace-delimited fragment, or the fragment is not JSON
ParseFails(content) ==
    \/ json_match(content) = <<0, 0>>
    \/ ~json_loads(Slice(content, json_match(content)[1], json_match(content)[2])).ok

\* the token HR, then the token JOB, looked for in the raw body
SubstringCategory(content) ==
    IF mentions(content, "HR") THEN "HR"
    ELSE IF mentions(content, "JOB") THEN "JOB"
    ELSE "OTHER"

\* the category member of the fragment that parsed, a string
ParsedCategory(content) ==
    category_of(json_loads(Slice(content, json_match(content)[1],
                                 json_match(content)[2])).data)

\* C12: on a status-200 response the category comes from the JSON parse of
\* the body; whenever the JSON parse fails (a body without a fragment, or
\* with a brace-delimited fragment that is not valid JSON), it comes from
\* the substring search of the raw response for HR, then JOB, and is OTHER
\* only if neither is found.
C12_SubstringAfterParseFailure ==
    op = "classify_with_llm" /\ OracleAnswers =>
        IF ParseFails(env.body)
        THEN returned.label = SubstringCategory(env.body)
        ELSE ParsedCategory(env.body).ok =>
                 returned.label = ParsedCategory(env.body).value

-----------------------------------------------------------------------------
(* Properties of one message's classification in a run, checked under      *)
(* SpecFair.  START is pc = "classify", RULE_SCORED is pc = "rule_scored",  *)
(* FINAL is pc = "classified"; the escalation and the oracle call are part *)
(* of the step from RULE_SCORED to FINAL.                                  *)

Classifying == pc \in {"classify", "rule_scored"}

\* the verdict at FINAL: the rule verdict when the oracle was not called,
\* the fallback verdict (with the rule evidence) when the call failed
FinalVerdict ==
    /\ returned # NoVerdict
    /\ calls = 0 => returned = rule
    /\ calls = 1 /\ (~env.key \/ env.raises \/ env.status # 200) =>
           returned = WithMatches(FallbackVerdict, rule)

\* the order of the steps
PathStep ==
    /\ pc = "classify" => pc' \in {"classify", "rule_scored"}
    /\ pc = "rule_scored" => pc' \in {"rule_scored", "classified"}
    /\ pc' = "classify" => pc \in {"save", "classify"}
    /\ pc' = "rule_scored" => pc \in {"classify", "rule_scored"}
    /\ pc' = "classified" => pc \in {"rule_scored", "classified"}
    /\ Classifying => message_id' = message_id /\ msg' = msg

\* C13: the classification of one message goes START, RULE_SCORED, FINAL
\* (with the escalation and the oracle call, if any, between RULE_SCORED
\* and FINAL); every classification started reaches FINAL; the oracle is
\* called at most once for a message, and not before the rules have scored;
\* a failed call is not made again and ends with the fallback verdict; the
\* next message's classification starts only after the current one is FINAL.
C13_ClassificationPath ==
    /\ [](calls <= 1)
    /\ [](Classifying => calls = 0 /\ returned = NoVerdict)
    /\ [](pc = "classified" => FinalVerdict)
    /\ [][PathStep]_vars
    /\ (pc = "classify" ~> pc = "classified")

\* a second message of the run is FINAL, after the first was processed
C13_Witness ==
    /\ pc = "classified"
    /\ stats.processed = 1
    /\ message_id = "m2"
    /\ db["m1"] = "DONE"
    /\ calls = 0
    /\ returned = rule

-----------------------------------------------------------------------------
(* Properties of the evidence list, checked under SpecClassifier           *)

\* the entries of list that occur in s, by increasing position in the list
InListOrder(list, s) ==
    LET hits == {n \in 1..Len(list) : Occurs(s, list[n])}
    IN  [k \in 1..Cardinality(hits) |->
            list[CHOOSE n \in hits : Cardinality({m \in hits : m < n}) = k - 1].name]

\* the full match sequence: the tag of the first trusted marker, then the
\* critical phrases, then the keywords
MatchSequence(sender_norm, text) ==
    LET trusted == InListOrder(trusted_job_senders, sender_norm)
        first   == IF trusted = <<>> THEN <<>> ELSE <<<<"trusted", trusted[1]>>>>
        plain   == InListOrder(critical_phrases, text) \o InListOrder(job_keywords, text)
    IN  first \o [k \in 1..Len(plain) |-> <<"", plain[k]>>]

FirstFive(seq) == [k \in 1..(IF Len(seq) < 5 THEN Len(seq) ELSE 5) |-> seq[k]]

EvidenceIsPrefix(seen, sequence) ==
    /\ Len(returned.matches) <= 5
    /\ NotBlocked(seen) =>
           /\ returned.matches = FirstFive(sequence)
           /\ returned.confidence = Clamped(ScoreSeen(seen))

EvidenceOf(sender_norm, subject_norm, body_norm) ==
    EvidenceIsPrefix(SeenOf(sender_norm, subject_norm, body_norm),
                     MatchSequence(sender_norm, subject_norm \o <<" ">> \o body_norm))

\* C14: the evidence list of a verdict has at most 5 entries and, for a
\* message that is not blocked, is the prefix of the full match sequence in
\* evaluation order: the tag of the first trusted marker (at most one),
\* then the matched critical phrases in list order, then the matched
\* keywords in list order; the matches beyond the fifth count in the score
\* but are not returned.
C14_EvidencePrefix ==
    op \in {"FastClassifier.classify", "classify_email"} =>
        EvidenceOf(normalize(msg.sender), normalize(msg.subject), normalize(msg.body))

\* a trusted sender with two markers, four critical phrases, two keywords
MoreThanFive(seen) ==
    /\ NotBlocked(seen)
    /\ seen.trusted
    /\ seen.critical + seen.keywords >= 6
    /\ Len(returned.matches) = 5
    /\ returned.matches[1][1] = "trusted"
    /\ returned.matches[5][1] = ""

C14_Witness == op = "FastClassifier.classify" /\ MoreThanFive(Seen)

-----------------------------------------------------------------------------
(* C15 *)

\* C15 as stated: normalize(normalize(t)) = normalize(t) for every text
C15_Idempotent ==
    \A k \in 2..Len(normalized) : normalized[k] = normalized[k - 1]

\* s holds a percent escape or a character reference
HoldsEscape(s) ==
    \E i \in 1..Len(s) :
        \/ /\ s[i] = "%"
           /\ i + 2 <= Len(s)
           /\ s[i + 1] \in HexDigits
           /\ s[i + 2] \in HexDigits
        \/ /\ s[i] = "&"
           /\ \E e \in 1..Len(Entities) : MatchAt(s, Entities[e].name, i + 1)

\* every step of normalize leaves n as it is
StepsLeaveUnchanged(n) ==
    /\ unquote(n) = n
    /\ html_unescape(n) = n
    /\ collapse_whitespace(n) = n
    /\ lower(n) = n
    /\ strip(n) = n

\* C15: normalize decodes one level of encoding.  None and the empty string
\* give the empty string; and when normalize(t) holds no percent escape and
\* no character reference, every step of normalize leaves normalize(t)
\* unchanged, so normalize(normalize(t)) = normalize(t).
C15_IdempotentOnceDecoded ==
    /\ raw_text \in {NoneText, <<>>} =>
           \A k \in 1..Len(normalized) : normalized[k] = <<>>
    /\ \A k \in 2..Len(normalized) :
           ~HoldsEscape(normalized[k - 1]) =>
               /\ normalized[k] = normalized[k - 1]
               /\ StepsLeaveUnchanged(normalized[k - 1])

\* an encoded text that normalize changed and, given its own result, left alone
C15_Witness ==
    /\ Len(normalized) >= 2
    /\ HoldsEscape(raw_text)
    /\ normalized[1] # raw_text
    /\ ~HoldsEscape(normalized[1])
    /\ normalized[2] = normalized[1]

-----------------------------------------------------------------------------
(* C16 *)

\* the verdict is outside the band [0.3, 0.5) and is not UNCERTAIN
OutsideUncertainBand(v) ==
    /\ v.label # "UNCERTAIN"
    /\ ~(v.confidence >= Pct(30) /\ v.confidence < Pct(50))

\* the score of a message that is not blocked is none of 18..29
ScoreOutsideGap(seen) ==
    NotBlocked(seen) =>
        /\ ScoreSeen(seen) \notin 18..29
        /\ seen.trusted => ScoreSeen(seen) >= 30

\* classify_email returned the rule verdict and did not call the oracle
RulesOnly ==
    /\ calls = 0
    /\ returned = rule
    /\ returned.source = "RULES"

\* C16: with the weights 30, 50, 15 and K = 60 the rule scorer never returns
\* UNCERTAIN and no confidence lies in [0.3, 0.5): the score of a message
\* that is not blocked is never in [18, 30), and is at least 30 with a
\* trusted sender; so classify_email never calls the oracle and every
\* verdict it returns has source RULES.
C16_NeverUncertain ==
    /\ op \in {"FastClassifier.classify", "classify_email"} =>
           /\ OutsideUncertainBand(rule)
           /\ ScoreOutsideGap(Seen)
    /\ op = "classify_email" => RulesOnly

\* one keyword and nothing else: confidence 0.25, between the two bounds of
\* classify_email's shortcut, and yet the rule verdict is returned
C16_Witness ==
    /\ op = "classify_email"
    /\ rule.confidence = Pct(25)
    /\ rule.label = "OTHER"
    /\ RulesOnly

-----------------------------------------------------------------------------
(* C17 *)

Terminal == {"DONE", "FAILED", "SKIPPED"}

\* the run is between save_email and update_email_status of message id
InProgress(id) ==
    /\ message_id = id
    /\ pc \in {"classify", "rule_scored", "classified", "notified", "notify_failed"}

\* the row of id was written by a run that ended before settling it
Leftover(id) == db[id] = "PROCESSING" /\ ~InProgress(id)

\* what holds of every state of a run
StatusInvariant ==
    /\ \A id \in MessageIds :
           /\ db[id] \in {"absent", "PROCESSING"} \cup Terminal
           /\ InProgress(id) => db[id] = "PROCESSING"
           /\ db[id] \in {"absent", "SKIPPED"} => sent[id] = 0
           /\ db[id] = "DONE" => sent[id] = 1
    /\ pc \in {"notified", "notify_failed"} => returned.is_job
    /\ pc \in {"fetch", "save"} => db[message_id] = "absent"

\* a row is written only by save_email, for the message whose details
\* were fetched, with status PROCESSING
StoredBySave(id) ==
    db[id] = "absent" /\ db'[id] # "absent" =>
        /\ pc = "save" /\ pc' = "classify"
        /\ id = message_id
        /\ msg # NoDetails
        /\ db'[id] = "PROCESSING"

\* the message in progress: the run goes on with it, or settles it
\* according to the verdict and the result of the send, or ends with an
\* exception
SettledByVerdict(id) ==
    InProgress(id) =>
        \/ InProgress(id)' /\ db'[id] = "PROCESSING"
        \/ /\ pc' = "loop"
           /\ db'[id] = CASE pc = "notified" -> "DONE"
                          [] pc = "notify_failed" -> "FAILED"
                          [] OTHER -> "SKIPPED"
           /\ db'[id] = "SKIPPED" <=> ~returned.is_job
           /\ db'[id] = "DONE" <=> returned.is_job /\ pc = "notified"
           /\ db'[id] = "FAILED" <=> returned.is_job /\ pc = "notify_failed"
        \/ /\ pc' = "idle"
           /\ returncode' = 1
           /\ db'[id] = "PROCESSING"

\* send_telegram is called only for the message in progress, once its
\* verdict is there and says is_job
SendOnlyForJob(id) ==
    /\ sent'[id] # sent[id] => InProgress(id) /\ pc = "classified"
    /\ InProgress(id) /\ pc' \in {"notified", "notify_failed"} /\ pc' # pc =>
           pc = "classified" /\ returned.is_job

\* the details could not be fetched: no row is written
NotStoredWithoutDetails ==
    pc = "fetch" /\ pc' # "save" =>
        /\ db' = db
        /\ db[message_id] = "absent"
        /\ pc' = "loop"

\* a message that has a row - settled, failed, or left PROCESSING by a run
\* that ended before settling it - is not taken up again: its row and its
\* notifications stay as they are and no run fetches it
NeverReattempted(id) ==
    /\ db[id] \in Terminal \/ Leftover(id) =>
           /\ db'[id] = db[id]
           /\ sent'[id] = sent[id]
           /\ ~InProgress(id)'
           /\ ~(message_id' = id /\ pc' \in {"fetch", "save"})
    /\ ~Leftover(id) /\ Leftover(id)' => pc' = "idle" /\ returncode' = 1

\* a run ends without an exception only between two messages
EndsBetweenMessages ==
    pc # "idle" /\ pc' = "idle" /\ returncode' = 0 =>
        /\ pc = "loop"
        /\ messages = <<>>
        /\ \A id \in MessageIds : ~InProgress(id)

StatusStep ==
    /\ \A id \in MessageIds :
           /\ StoredBySave(id)
           /\ SettledByVerdict(id)
           /\ SendOnlyForJob(id)
           /\ NeverReattempted(id)
    /\ NotStoredWithoutDetails
    /\ EndsBetweenMessages

\* C17: a message is stored only once its details are fetched, with status
\* PROCESSING; the run that stored it settles it before it goes on or ends
\* without an exception: DONE iff the verdict says is_job and the send
\* succeeded, FAILED iff is_job and the send failed, SKIPPED iff not
\* is_job; the send is attempted only for is_job verdicts; a message whose
\* details cannot be fetched gets no row; and a message with a row that is
\* FAILED, or left PROCESSING by a run that ended with an exception, is
\* never taken up again.
C17_TerminalStatus == []StatusInvariant /\ [][StatusStep]_vars

\* the second run passes over m1, which the first run stored as FAILED after
\* it had settled m2 as SKIPPED
C17_Witness ==
    /\ runs = 2
    /\ pc = "loop"
    /\ message_id = "m1"
    /\ stats = NoStats
    /\ db["m1"] = "FAILED"
    /\ db["m2"] = "SKIPPED"
    /\ sent["m1"] <= 1

=============================================================================
